---- MODULE Spec2Model ----
(***************************************************************************)
(* A model of gh-dir-diff: the glob matcher, the unified-diff assembler,   *)
(* the shareable-URL mapping and the token lifecycle of src/app.js, and    *)
(* the state-token signer/verifier and request handler of the OAuth        *)
(* worker, src/gh-dir-diff-oauth/src/index.ts.                             *)
(*                                                                         *)
(* A JavaScript string is a sequence of one-character strings, so that     *)
(* split, slice, join and regular-expression matching are computed as the  *)
(* code computes them.  Each component has its own specification; the      *)
(* variables of the other components stay at their idle values.            *)
(***************************************************************************)
EXTENDS Integers, Sequences, FiniteSets, TLC

VARIABLES
  \* glob matcher (matchGlob)
  gPattern, gPath, gResult, gPc,
  \* the page's form inputs, its address bar, the form of a page opened from
  \* the link and that page's auto-load timer
  form, location, opened, autoLoad, uPc,
  \* loadDiff: the compare response, the rendered diff, the stats, the error
  compareFiles, unifiedDiff, stats, errorText, dPc,
  \* signState / verifyState: the state, the secrets, the token, the verdict
  sState, sSecret, sSigned, sTampered, vSecret, vNow, vResult, sPc,
  \* the worker: its clock, the tokens it has signed, the last request and
  \* the response to it
  clock, issued, req, resp,
  \* the page's token: in memory, in localStorage; the auth widgets; the
  \* user-info requests in flight; where the page's script is
  accessToken, storage, ui, pending, tPc

globVars == <<gPattern, gPath, gResult, gPc>>
urlVars == <<form, location, opened, autoLoad, uPc>>
diffVars == <<compareFiles, unifiedDiff, stats, errorText, dPc>>
stateVars == <<sState, sSecret, sSigned, sTampered, vSecret, vNow, vResult, sPc>>
workerVars == <<clock, issued, req, resp>>
tokenVars == <<accessToken, storage, ui, pending, tPc>>
vars == <<globVars, urlVars, diffVars, stateVars, workerVars, tokenVars>>

(***************************************************************************)
(* Bounds of the model.                                                    *)
(***************************************************************************)
MaxPatLen == 4
MaxPathLen == 3
MaxFiles == 2
MaxRefLen == 3
MaxStateLen == 3
MaxNow == 34
MaxClock == 12
MaxIssued == 2
MaxPending == 2

(***************************************************************************)
(* Strings.                                                                *)
(***************************************************************************)
\* All sequences over S of length at most n.
StringsUpTo(S, n) == UNION {[1..k -> S] : k \in 0..n}

\* s.slice(from) with 0-based from, as a 1-based suffix.
Drop(s, k) == SubSeq(s, k + 1, Len(s))

Take(s, k) == SubSeq(s, 1, k)

\* The position of the first occurrence of the character d in s, 0 if none.
IndexOfChar(s, d) ==
  IF \E i \in 1..Len(s) : s[i] = d
  THEN CHOOSE i \in 1..Len(s) : s[i] = d /\ \A j \in 1..(i - 1) : s[j] # d
  ELSE 0

\* String.prototype.split with a one-character separator: "" gives [""].
RECURSIVE Split(_, _)
Split(s, d) ==
  LET i == IndexOfChar(s, d)
  IN IF i = 0 THEN <<s>> ELSE <<Take(s, i - 1)>> \o Split(Drop(s, i), d)

\* Array.prototype.join with a one-character separator.
RECURSIVE Join(_, _)
Join(parts, d) ==
  IF parts = <<>> THEN <<>>
  ELSE IF Len(parts) = 1 THEN parts[1]
  ELSE parts[1] \o <<d>> \o Join(Tail(parts), d)

(***************************************************************************)
(* matchGlob: the pattern is compiled to a regular expression, which is    *)
(* then tested against the path.  The regular expression is a sequence of  *)
(* atoms, one per piece of source text the code appends.                   *)
(***************************************************************************)
\* The characters escapeRegex puts a backslash before.
RegexSpecial == {".", "+", "^", "$", "{", "}", "(", ")", "|", "[", "]", "\\"}

\* What one character of regular-expression source means: escaped, itself;
\* bare, itself unless it is a metacharacter.
CharAtom(c, escaped) ==
  IF ~escaped /\ c = "." THEN [k |-> "dot", c |-> ""] ELSE [k |-> "lit", c |-> c]

EscapeRegexNoop(c) == CharAtom(c, FALSE)

escapeRegex(c) == CharAtom(c, c \in RegexSpecial)

\* '[^/]*'
StarAtom == [k |-> "nonslashstar", c |-> ""]

\* '[^/]'
QuestionAtom == [k |-> "nonslash", c |-> ""]

\* '.*'
DotStarAtom == [k |-> "dotstar", c |-> ""]

\* '(?:.*/)?'
OptDirsAtom == [k |-> "optdirs", c |-> ""]

SlashAtom == [k |-> "lit", c |-> "/"]

\* The inner loop over the characters of one segment.
RECURSIVE segmentPattern(_)
segmentPattern(segment) ==
  IF segment = <<>> THEN <<>>
  ELSE LET char == Head(segment)
       IN (IF char = "*" THEN <<StarAtom>>
           ELSE IF char = "?" THEN <<QuestionAtom>>
           ELSE <<escapeRegex(char)>>) \o segmentPattern(Tail(segment))

DoubleStarMiddle == <<OptDirsAtom>>

\* The outer loop over the segments, from segment i on.
RECURSIVE regexPattern(_, _)
regexPattern(segments, i) ==
  IF i > Len(segments) THEN <<>>
  ELSE LET segment == segments[i]
           last == (i = Len(segments))
       IN (IF segment = <<"*", "*">>
           THEN (IF last THEN <<DotStarAtom>> ELSE DoubleStarMiddle)
           ELSE segmentPattern(segment) \o (IF last THEN <<>> ELSE <<SlashAtom>>))
          \o regexPattern(segments, i + 1)

\* regex.test for an anchored expression without u/s flags: the atoms from
\* i on match exactly the characters of p from j on.  '.' matches any
\* character but a line terminator.
LineTerminators == {"\n", "\r"}

RECURSIVE RegexTest(_, _, _, _)
RegexTest(re, i, p, j) ==
  IF i > Len(re) THEN j > Len(p)
  ELSE LET a == re[i]
       IN CASE a.k = "lit" ->
                 j <= Len(p) /\ p[j] = a.c /\ RegexTest(re, i + 1, p, j + 1)
            [] a.k = "dot" ->
                 j <= Len(p) /\ p[j] \notin LineTerminators
                 /\ RegexTest(re, i + 1, p, j + 1)
            [] a.k = "nonslash" ->
                 j <= Len(p) /\ p[j] # "/" /\ RegexTest(re, i + 1, p, j + 1)
            [] a.k = "nonslashstar" ->
                 \E n \in j..(Len(p) + 1) :
                    /\ \A q \in j..(n - 1) : p[q] # "/"
                    /\ RegexTest(re, i + 1, p, n)
            [] a.k = "dotstar" ->
                 \E n \in j..(Len(p) + 1) :
                    /\ \A q \in j..(n - 1) : p[q] \notin LineTerminators
                    /\ RegexTest(re, i + 1, p, n)
            [] a.k = "optdirs" ->
                 \/ RegexTest(re, i + 1, p, j)
                 \/ \E n \in j..Len(p) :
                       /\ \A q \in j..(n - 1) : p[q] \notin LineTerminators
                       /\ p[n] = "/"
                       /\ RegexTest(re, i + 1, p, n + 1)

matchGlob(pattern, path) ==
  IF pattern = <<>> THEN TRUE
  ELSE RegexTest(regexPattern(Split(pattern, "/"), 1), 1, path, 1)

(***************************************************************************)
(* Optional properties of a JavaScript object: def is FALSE when the       *)
(* property is undefined.                                                  *)
(***************************************************************************)
Undefined(v) == [def |-> FALSE, v |-> v]
Some(v) == [def |-> TRUE, v |-> v]

\* x || fallback, for a string-valued or sequence-valued x with empty value e.
OrElse(x, e, fallback) == IF x.def /\ x.v # e THEN x.v ELSE fallback

\* A sequence of characters as one piece of text.
RECURSIVE Str(_)
Str(s) == IF s = <<>> THEN "" ELSE Head(s) \o Str(Tail(s))

(***************************************************************************)
(* The address bar.  history.replaceState(null, "", url) parses url        *)
(* against the page's address: the path runs to the first '?' or '#', the  *)
(* query from '?' to the first '#', the fragment from '#'.  The characters *)
(* of the model need no percent-encoding in a path, and no segment of a    *)
(* modelled path is '.' or '..'.                                           *)
(***************************************************************************)
ParseURL(url) ==
  LET h == IndexOfChar(url, "#")
      beforeHash == IF h = 0 THEN url ELSE Take(url, h - 1)
      fragment == IF h = 0 THEN <<>> ELSE Drop(url, h)
      q == IndexOfChar(beforeHash, "?")
      query == IF q = 0 THEN <<>> ELSE Drop(beforeHash, q)
  IN [ pathname |-> IF q = 0 THEN beforeHash ELSE Take(beforeHash, q - 1),
       search |-> IF query = <<>> THEN <<>> ELSE <<"?">> \o query,
       hash |-> IF fragment = <<>> THEN <<>> ELSE <<"#">> \o fragment ]

\* encodeURIComponent leaves A-Z a-z 0-9 - _ . ! ~ * ' ( ) alone and writes
\* every other character as %XX.  These are the characters of the model it
\* encodes; every other character of the model is a letter, a digit, '.',
\* '*' or '-'.
PercentCode ==
  [c \in {"/", "?", "#", "%", "+", "&", "=", " "} |->
     CASE c = "/" -> <<"%", "2", "F">>
       [] c = "?" -> <<"%", "3", "F">>
       [] c = "#" -> <<"%", "2", "3">>
       [] c = "%" -> <<"%", "2", "5">>
       [] c = "+" -> <<"%", "2", "B">>
       [] c = "&" -> <<"%", "2", "6">>
       [] c = "=" -> <<"%", "3", "D">>
       [] c = " " -> <<"%", "2", "0">>]

RECURSIVE encodeURIComponent(_)
encodeURIComponent(s) ==
  IF s = <<>> THEN <<>>
  ELSE (IF Head(s) \in DOMAIN PercentCode THEN PercentCode[Head(s)] ELSE <<Head(s)>>)
       \o encodeURIComponent(Tail(s))

\* The decoding URLSearchParams applies to a name or a value: '+' is a
\* space, %XX the character it encodes, anything else itself.
RECURSIVE FormDecode(_)
FormDecode(s) ==
  IF s = <<>> THEN <<>>
  ELSE IF Head(s) = "+" THEN <<" ">> \o FormDecode(Tail(s))
  ELSE IF Head(s) = "%" /\ Len(s) >= 3
          /\ \E c \in DOMAIN PercentCode : PercentCode[c] = Take(s, 3)
       THEN <<CHOOSE c \in DOMAIN PercentCode : PercentCode[c] = Take(s, 3)>>
            \o FormDecode(Drop(s, 3))
  ELSE <<Head(s)>> \o FormDecode(Tail(s))

\* new URLSearchParams(text).get(name): text without its leading '?' or
\* '#', split on '&', each pair split at its first '='; the first pair with
\* the name gives the value, Undefined (null) when there is none.
SearchParamsGet(text, name) ==
  LET pairs == SelectSeq(Split(text, "&"), LAMBDA kv : kv # <<>>)
      keyOf(kv) == LET e == IndexOfChar(kv, "=")
                   IN FormDecode(IF e = 0 THEN kv ELSE Take(kv, e - 1))
      valOf(kv) == LET e == IndexOfChar(kv, "=")
                   IN FormDecode(IF e = 0 THEN <<>> ELSE Drop(kv, e))
      hits == SelectSeq(pairs, LAMBDA kv : keyOf(kv) = name)
  IN IF hits = <<>> THEN Undefined(<<>>) ELSE Some(valOf(hits[1]))

Prefix == <<"/", "g", "h", "-", "d", "i", "r", "-", "d", "i", "f", "f", "/">>
FilterKey == <<"f", "i", "l", "t", "e", "r">>
FilterParam == <<"?">> \o FilterKey \o <<"=">>

\* The form's four inputs, already trimmed.
EmptyForm == [repo |-> <<>>, base |-> <<>>, head |-> <<>>, filter |-> <<>>]

\* updateURL: the address after it ran on form f at address loc.
updateURL(f, loc) ==
  IF f.repo # <<>> /\ f.base # <<>> /\ f.head # <<>>
  THEN ParseURL(Prefix \o f.repo \o <<"/">> \o f.base \o <<".", ".">> \o f.head
                \o (IF f.filter # <<>>
                    THEN FilterParam \o encodeURIComponent(f.filter)
                    ELSE <<>>))
  ELSE loc

\* String.prototype.split("..").
RECURSIVE SplitDotDot(_)
SplitDotDot(s) ==
  IF \E i \in 1..(Len(s) - 1) : s[i] = "." /\ s[i + 1] = "."
  THEN LET i == CHOOSE i \in 1..(Len(s) - 1) :
                  /\ s[i] = "." /\ s[i + 1] = "."
                  /\ \A j \in 1..(i - 1) : ~(s[j] = "." /\ s[j + 1] = ".")
       IN <<Take(s, i - 1)>> \o SplitDotDot(Drop(s, i + 1))
  ELSE <<s>>

\* loadFromURL: what it writes into the form f of a page at address loc.
loadFromURL(f, loc) ==
  LET pathname == loc.pathname
      filter == OrElse(SearchParamsGet(Drop(loc.search, 1), FilterKey), <<>>, <<>>)
      sliced == Drop(pathname, Len(Prefix))
      path == IF sliced # <<>> /\ sliced[Len(sliced)] = "/"
              THEN Take(sliced, Len(sliced) - 1) ELSE sliced
      parts == SplitDotDot(path)
      segments == Split(parts[1], "/")
      param(n) == SearchParamsGet(Drop(loc.search, 1), n)
      repoParam == param(<<"r", "e", "p", "o">>)
  IN IF /\ Len(pathname) > Len(Prefix)
        /\ Take(pathname, Len(Prefix)) = Prefix
        /\ Len(parts) = 2
        /\ Len(segments) >= 2
     THEN [ repo |-> segments[1] \o <<"/">> \o segments[2],
            base |-> Join(Drop(segments, 2), "/"),
            head |-> parts[2],
            filter |-> filter ]
     ELSE IF repoParam.def /\ repoParam.v # <<>>
     THEN [ repo |-> repoParam.v,
            base |-> OrElse(param(<<"b", "a", "s", "e">>), <<>>, <<>>),
            head |-> OrElse(param(<<"h", "e", "a", "d">>), <<>>, <<>>),
            filter |-> filter ]
     ELSE f

\* Whether loadFromURL, at address loc, fills the form and sets the timer
\* that submits it.
SchedulesAutoLoad(loc) == loadFromURL(EmptyForm, loc) # EmptyForm

HomePage == [pathname |-> Prefix, search |-> <<>>, hash |-> <<>>]

IdleUrl ==
  /\ form = EmptyForm
  /\ location = HomePage
  /\ opened = EmptyForm
  /\ autoLoad = "none"
  /\ uPc = "idle"

(***************************************************************************)
(* loadDiff: the unified diff built from the compare response.  The text   *)
(* is a sequence of lines, each ended by "\n" in the code; a line is the   *)
(* tuple of the pieces of its template literal.  A patch is appended as    *)
(* one line: its text followed by "\n".                                    *)
(***************************************************************************)
SkipsEveryPatchless(file) == ~file.patch.def

\* The test of the loop's `continue`.
Skipped(file) ==
  ~file.patch.def /\ file.status # "removed" /\ file.status # "added"

\* if (file.patch)
HasPatchText(file) == file.patch.def /\ file.patch.v # ""

\* The renamed branch's if (file.patch).
RenameHasMarkers(file) == HasPatchText(file)

DefaultMode == "100644"

AddedModeIgnored(file) == DefaultMode

AddedMode(file) == OrElse(file.mode, "", DefaultMode)

\* The lines one iteration of the loop appends for a file it does not skip.
Section(file) ==
  LET oldFilename == Str(OrElse(file.previous_filename, <<>>, file.filename))
      newFilename == Str(file.filename)
  IN (CASE file.status = "removed" ->
             << <<"diff --git a/", oldFilename, " b/", oldFilename>>,
                <<"deleted file mode ", OrElse(file.previous_mode, "", DefaultMode)>>,
                <<"--- a/", oldFilename>>,
                <<"+++ /dev/null">> >>
        [] file.status = "added" ->
             << <<"diff --git a/", newFilename, " b/", newFilename>>,
                <<"new file mode ", AddedMode(file)>>,
                <<"--- /dev/null">>,
                <<"+++ b/", newFilename>> >>
        [] file.status = "renamed" ->
             << <<"diff --git a/", oldFilename, " b/", newFilename>>,
                <<"rename from ", oldFilename>>,
                <<"rename to ", newFilename>> >>
             \o (IF RenameHasMarkers(file)
                 THEN << <<"--- a/", oldFilename>>, <<"+++ b/", newFilename>> >>
                 ELSE <<>>)
        [] OTHER ->
             << <<"diff --git a/", newFilename, " b/", newFilename>>,
                <<"--- a/", newFilename>>,
                <<"+++ b/", newFilename>> >>)
     \o (IF HasPatchText(file) THEN << <<file.patch.v>> >> ELSE <<>>)

\* The loop over the filtered files.
RECURSIVE BuildDiff(_)
BuildDiff(files) ==
  IF files = <<>> THEN <<>>
  ELSE (IF Skipped(Head(files)) THEN <<>> ELSE Section(Head(files)))
       \o BuildDiff(Tail(files))

\* files.filter((f) => matchGlob(pathFilter, f.filename)) when pathFilter is
\* not empty.
FilterFiles(files, pathFilter) ==
  IF pathFilter # <<>>
  THEN SelectSeq(files, LAMBDA f : matchGlob(pathFilter, f.filename))
  ELSE files

\* f.additions || 0
Count(n) == IF n.def THEN n.v ELSE 0

\* files.reduce((sum, f) => sum + (f.additions || 0), 0)
RECURSIVE SumAdditions(_)
SumAdditions(files) ==
  IF files = <<>> THEN 0 ELSE Count(Head(files).additions) + SumAdditions(Tail(files))

RECURSIVE SumDeletions(_)
SumDeletions(files) ==
  IF files = <<>> THEN 0 ELSE Count(Head(files).deletions) + SumDeletions(Tail(files))

StatsOverEmitted(files) ==
  LET emitted == SelectSeq(files, LAMBDA f : ~Skipped(f))
  IN [ kind |-> "stats", files |-> Len(emitted),
       additions |-> SumAdditions(emitted), deletions |-> SumDeletions(emitted) ]

\* The stats line: files is the filtered list.
Stats(files) ==
  [ kind |-> "stats", files |-> Len(files),
    additions |-> SumAdditions(files), deletions |-> SumDeletions(files) ]

NoStats == [kind |-> "none", files |-> 0, additions |-> 0, deletions |-> 0]
NoMatchStats == [kind |-> "nomatch", files |-> 0, additions |-> 0, deletions |-> 0]

\* The message of the error loadDiff throws or catches.
ErrorMessage(failure, token) ==
  CASE failure = "rate limit" ->
         IF token.def /\ token.v # <<>>
         THEN "Rate limit exceeded. Resets in N minutes."
         ELSE "Rate limit exceeded (60 requests/hour for unauthenticated requests)."
    [] failure = "status" -> "HTTP status"
    [] OTHER -> "Failed to fetch"

IdleDiff ==
  /\ compareFiles = <<>>
  /\ unifiedDiff = <<>>
  /\ stats = NoStats
  /\ errorText = ""
  /\ dPc = "idle"

(***************************************************************************)
(* signState and verifyState.  The HMAC is a black box: one token per      *)
(* (secret, message), different for different arguments; its hexadecimal   *)
(* text holds no '.'.  Time is counted in minutes.                         *)
(***************************************************************************)
Hmac(secret, message) == "hmac:" \o secret \o ":" \o Str(message)

signState(state, secret) == state \o <<".">> \o <<Hmac(secret, state)>>

Digits == {"0", "1", "2", "3", "4", "5", "6", "7", "8", "9"}

DigitValue(d) ==
  CASE d = "0" -> 0 [] d = "1" -> 1 [] d = "2" -> 2 [] d = "3" -> 3 [] d = "4" -> 4
    [] d = "5" -> 5 [] d = "6" -> 6 [] d = "7" -> 7 [] d = "8" -> 8 [] d = "9" -> 9

NaN == [nan |-> TRUE, n |-> 0]
Number(n) == [nan |-> FALSE, n |-> n]

\* parseInt on text without blanks or sign: the value of the leading run of
\* digits, NaN when the text does not start with a digit.
RECURSIVE ParseDigits(_, _)
ParseDigits(s, acc) ==
  IF s # <<>> /\ Head(s) \in Digits
  THEN ParseDigits(Tail(s), 10 * acc + DigitValue(Head(s)))
  ELSE acc

parseInt(s) ==
  IF s # <<>> /\ Head(s) \in Digits THEN Number(ParseDigits(s, 0)) ELSE NaN

\* 10 * 60 * 1000 milliseconds.
ExpiryMinutes == 10

\* now - timestamp > 10 * 60 * 1000: false when timestamp is NaN.
Expired(now, timestamp) == ~timestamp.nan /\ now - timestamp.n > ExpiryMinutes

VerifyIgnoringSignature(signedState, secret, now) ==
  LET parts == Split(signedState, ".")
      state == parts[1]
  IN IF state = <<>> \/ Len(parts) < 2 THEN Undefined(<<>>)
     ELSE IF parts[2] = <<>> THEN Undefined(<<>>)
     ELSE IF Expired(now, parseInt(Split(state, "-")[1])) THEN Undefined(<<>>)
     ELSE Some(state)

\* verifyState at time now: the state, or Undefined for null.
verifyState(signedState, secret, now) ==
  LET parts == Split(signedState, ".")
      state == parts[1]
  IN IF state = <<>> \/ Len(parts) < 2 THEN Undefined(<<>>)
     ELSE IF parts[2] = <<>> THEN Undefined(<<>>)
     ELSE IF parts[2] # Split(signState(state, secret), ".")[2] THEN Undefined(<<>>)
     ELSE IF Expired(now, parseInt(Split(state, "-")[1])) THEN Undefined(<<>>)
     ELSE Some(state)

IdleState ==
  /\ sState = <<>>
  /\ sSecret = ""
  /\ sSigned = <<>>
  /\ sTampered = FALSE
  /\ vSecret = ""
  /\ vNow = 0
  /\ vResult = Undefined(<<>>)
  /\ sPc = "idle"

(***************************************************************************)
(* The worker's fetch handler.                                             *)
(***************************************************************************)
\* env.CSRF_SECRET
CSRF_SECRET == "s1"

\* `${Date.now()}`: the decimal digits of n.
DigitOf(d) == CHOOSE c \in Digits : DigitValue(c) = d

RECURSIVE ToDecimal(_)
ToDecimal(n) ==
  IF n < 10 THEN <<DigitOf(n)>> ELSE ToDecimal(n \div 10) \o <<DigitOf(n % 10)>>

\* String.prototype.trim, for blanks.
RECURSIVE Trim(_)
Trim(s) ==
  IF s # <<>> /\ Head(s) = " " THEN Trim(Tail(s))
  ELSE IF s # <<>> /\ s[Len(s)] = " " THEN Trim(Take(s, Len(s) - 1))
  ELSE s

OauthStateKey == <<"oauth_state">>

\* cookies.oauth_state: the Cookie header split on ';', each piece trimmed
\* and split on '=', the name before the first '=' and the value after it;
\* Object.fromEntries keeps the last entry of a name.
CookieOauthState(cookieHeader) ==
  LET pieces == Split(cookieHeader, ";")
      keyOf(c) == Split(Trim(c), "=")[1]
      valOf(c) == Join(Tail(Split(Trim(c), "=")), "=")
      hits == SelectSeq(pieces, LAMBDA c : keyOf(c) = OauthStateKey)
  IN IF hits = <<>> THEN Undefined(<<>>) ELSE Some(valOf(hits[Len(hits)]))

\* !x for a string that may be null or undefined.
Missing(x) == ~x.def \/ x.v = <<>>

Response(status, body, exchanged) ==
  [status |-> status, body |-> body, exchanged |-> exchanged]

StateMatchesAlways(validState, state) == TRUE

\* validState !== state, negated.
StateMatches(validState, state) == validState.v = state.v

\* The /callback branch on request r at time now; tokenData is what the
\* token endpoint answers when it is asked.
Callback(r, now, tokenData) ==
  IF Missing(r.code) \/ Missing(r.state)
  THEN Response(400, "Missing code or state parameter", FALSE)
  ELSE LET signedState == CookieOauthState(r.cookie)
       IN IF Missing(signedState)
          THEN Response(400, "Missing state cookie", FALSE)
          ELSE LET validState == verifyState(signedState.v, CSRF_SECRET, now)
               IN IF ~validState.def \/ ~StateMatches(validState, r.state)
                  THEN Response(400, "Invalid or expired state", FALSE)
                  ELSE IF tokenData # "access_token"
                  THEN Response(400, "OAuth error", TRUE)
                  ELSE Response(302, "FRONTEND_URL/#access_token", TRUE)

NoRequest ==
  [ method |-> "", pathname |-> "", code |-> Undefined(<<>>),
    state |-> Undefined(<<>>), cookie |-> <<>>, at |-> 0 ]

IdleWorker ==
  /\ clock = 0
  /\ issued = {}
  /\ req = NoRequest
  /\ resp = Response(0, "", FALSE)

(***************************************************************************)
(* The page's token: accessToken in memory and github_token in             *)
(* localStorage.  The functions work on the page state p, a record of      *)
(* accessToken, storage, location, ui and pending.                         *)
(***************************************************************************)
NoToken == Undefined(<<>>)

\* if (accessToken), if (token)
Truthy(x) == x.def /\ x.v # <<>>

AccessTokenKey == <<"access_token">>

\* hash.includes("access_token=")
IncludesAccessToken(hash) ==
  \E i \in 1..(Len(hash) - 1) : hash[i] = "access_token" /\ hash[i + 1] = "="

AnonymousUi == [loginBtn |-> "inline-block", logoutBtn |-> "none", userInfo |-> ""]

\* updateAuthUI up to its first await: with a token the buttons are
\* switched and the user-info request is sent; without one the anonymous
\* widgets are shown.
updateAuthUI(p) ==
  IF Truthy(p.accessToken)
  THEN [p EXCEPT !.ui = [@ EXCEPT !.loginBtn = "none", !.logoutBtn = "inline-block"],
                 !.pending = Append(@, [token |-> p.accessToken.v, stage |-> "fetch"])]
  ELSE [p EXCEPT !.ui = AnonymousUi]

handleOAuthCallback(p) ==
  LET token == SearchParamsGet(Drop(p.location.hash, 1), AccessTokenKey)
  IN IF IncludesAccessToken(p.location.hash) /\ Truthy(token)
     THEN [p EXCEPT !.storage = Some(token.v),
                    !.accessToken = Some(token.v),
                    !.location = ParseURL(p.location.pathname)]
     ELSE p

logoutKeepsMemory(p) == updateAuthUI([p EXCEPT !.storage = NoToken])

logout(p) == updateAuthUI([p EXCEPT !.storage = NoToken, !.accessToken = NoToken])

\* The widgets as the document declares them, before any script ran.
InitialUi == [loginBtn |-> "", logoutBtn |-> "", userInfo |-> ""]

IdleToken ==
  /\ accessToken = NoToken
  /\ storage = NoToken
  /\ ui = InitialUi
  /\ pending = <<>>
  /\ tPc = "idle"

(***************************************************************************)
(* The inputs of the glob specification: every pattern and path up to the  *)
(* bounds, and the longer patterns and paths of the documented examples.   *)
(***************************************************************************)
PatternAlphabet == {"a", ".", "*", "?", "/"}
PathAlphabet == {"a", "x", ".", "/", "*"}

ExamplePatterns ==
  { <<"*", ".", "g", "o">>,
    <<"*", "*", "/", "*", ".", "g", "o">>,
    <<"a", "/", "*", "*", "/", "z">>,
    <<"a", "/", "*", "*">>,
    <<"*", "*", "/", "z">>,
    <<"a", "/", "*", "*", "/", "*", "*">>,
    <<"a", "/", "*", "*", "/", "?">>,
    <<"a", "/", "*", "*", "*", "/", "z">>,
    <<"a", ".", "b">> }

ExamplePaths ==
  { <<"a", "/", "b", "/", "c", ".", "g", "o">>,
    <<"c", ".", "g", "o">>,
    <<"a", "/", "z">>,
    <<"a", "/", "b", "/", "z">>,
    <<"a", "/", "b", "/", "c", "/", "z">>,
    <<"a", "/", "b", "z">>,
    <<"a", "/", "/", "z">>,
    <<"a", "z">>,
    <<"a", "/">>,
    <<"a">>,
    <<"z">>,
    <<"a", "x", "b">>,
    <<"a", ".", "b">> }

GlobInputs ==
  (StringsUpTo(PatternAlphabet, MaxPatLen) \X StringsUpTo(PathAlphabet, MaxPathLen))
  \cup (ExamplePatterns \X ExamplePaths)

InitGlob ==
  /\ \E in \in GlobInputs : gPattern = in[1] /\ gPath = in[2]
  /\ gResult = FALSE
  /\ gPc = "compile"
  /\ IdleUrl
  /\ IdleDiff
  /\ IdleState
  /\ IdleWorker
  /\ IdleToken

\* files.filter((f) => matchGlob(pathFilter, f.filename)), one call.
MatchGlob ==
  /\ gPc = "compile"
  /\ gResult' = matchGlob(gPattern, gPath)
  /\ gPc' = "tested"
  /\ UNCHANGED <<gPattern, gPath, urlVars, diffVars, stateVars, workerVars, tokenVars>>

NextGlob == MatchGlob

SpecGlob == InitGlob /\ [][NextGlob]_vars

(***************************************************************************)
(* The segment-wise matcher the documentation describes.                   *)
(***************************************************************************)
\* One non-`**` segment against text: `*` is zero or more characters other
\* than '/', `?` exactly one, any other character itself.
RECURSIVE SegmentMatches(_, _)
SegmentMatches(seg, text) ==
  IF seg = <<>> THEN text = <<>>
  ELSE IF Head(seg) = "*"
       THEN \/ SegmentMatches(Tail(seg), text)
            \/ /\ text # <<>>
               /\ Head(text) # "/"
               /\ SegmentMatches(seg, Tail(text))
  ELSE IF Head(seg) = "?"
       THEN text # <<>> /\ Head(text) # "/" /\ SegmentMatches(Tail(seg), Tail(text))
  ELSE text # <<>> /\ Head(text) = Head(seg) /\ SegmentMatches(Tail(seg), Tail(text))

\* The pattern's segments from k on against the whole of text.
RECURSIVE SegmentsMatch(_, _, _)
SegmentsMatch(segs, k, text) ==
  LET seg == segs[k]
      last == (k = Len(segs))
      slash == IndexOfChar(text, "/")
  IN IF seg = <<"*", "*">>
     THEN IF last THEN TRUE
          ELSE \* zero or more complete segments, each followed by '/'
               \/ SegmentsMatch(segs, k + 1, text)
               \/ \E n \in 1..Len(text) :
                     text[n] = "/" /\ SegmentsMatch(segs, k + 1, Drop(text, n))
     ELSE IF last THEN SegmentMatches(seg, text)
          ELSE /\ slash # 0
               /\ SegmentMatches(seg, Take(text, slash - 1))
               /\ SegmentsMatch(segs, k + 1, Drop(text, slash))

ReferenceMatch(pattern, path) ==
  pattern = <<>> \/ SegmentsMatch(Split(pattern, "/"), 1, path)

\* C1: matchGlob agrees with the segment-wise matcher on every pattern and
\* path, and gives the documented answers on the documented examples.
C1_GlobMatchesReference ==
  gPc = "tested" =>
    /\ gResult = ReferenceMatch(gPattern, gPath)
    /\ (gPattern = <<>> => gResult)
    /\ (gPattern = <<"*", ".", "g", "o">>
          /\ gPath = <<"a", "/", "b", "/", "c", ".", "g", "o">> => ~gResult)
    /\ (gPattern = <<"*", "*", "/", "*", ".", "g", "o">>
          /\ gPath = <<"a", "/", "b", "/", "c", ".", "g", "o">> => gResult)
    /\ (gPattern = <<"a", "/", "*", "*", "/", "z">> /\ gPath = <<"a", "/", "z">>
          => gResult)
    /\ (gPattern = <<"a", ".", "b">> /\ gPath = <<"a", "x", "b">> => ~gResult)
    /\ (gPattern = <<"a", ".", "b">> /\ gPath = <<"a", ".", "b">> => gResult)

\* A non-final `**` that absorbed two whole segments has been tested.
C1_Witness ==
  /\ gPc = "tested"
  /\ gPattern = <<"a", "/", "*", "*", "/", "z">>
  /\ gPath = <<"a", "/", "b", "/", "c", "/", "z">>
  /\ gResult

(***************************************************************************)
(* The diff specification: one submit of the form.  The compare response   *)
(* is the input: a list of file records as the API returns them, with      *)
(* previous_filename only on renamed files.                                *)
(***************************************************************************)
IdleGlob ==
  /\ gPattern = <<>>
  /\ gPath = <<>>
  /\ gResult = FALSE
  /\ gPc = "idle"

Filenames == { <<"a">>, <<"d", "/", "a">> }

PatchTexts == { Undefined(""), Some(""), Some("@@ -1 +1 @@\n-a\n+b") }

\* The counts of a record go with its name.
Counts(name) ==
  IF name = <<"a">> THEN [additions |-> Undefined(0), deletions |-> Some(2)]
  ELSE [additions |-> Some(3), deletions |-> Some(1)]

FileRecord(name, status, patch, prev, mode, prevMode, n) ==
  [ filename |-> name, status |-> status, patch |-> patch,
    previous_filename |-> prev, mode |-> mode, previous_mode |-> prevMode,
    additions |-> n.additions, deletions |-> n.deletions ]

NoName == Undefined(<<>>)
NoMode == Undefined("")

FileRecords ==
  UNION { UNION {
    { FileRecord(name, "added", patch, NoName, mode, NoMode, Counts(name)) :
        mode \in {NoMode, Some("100755")} }
    \cup { FileRecord(name, "removed", patch, NoName, NoMode, mode, Counts(name)) :
        mode \in {NoMode, Some("100755")} }
    \cup { FileRecord(name, "renamed", patch, prev, NoMode, NoMode, Counts(name)) :
        prev \in {NoName, Some(<<"o">>)} }
    \cup { FileRecord(name, status, patch, NoName, NoMode, NoMode, Counts(name)) :
        status \in {"modified", "changed"} }
    : patch \in PatchTexts } : name \in Filenames }

FileLists == UNION { [1..k -> FileRecords] : k \in 0..MaxFiles }

DiffFilters == { <<>>, <<"a">>, <<"d", "/", "*">>, <<"*", ".", "x">> }

DiffForms ==
  { [repo |-> <<"o", "/", "r">>, base |-> <<"a">>, head |-> <<"x">>, filter |-> f] :
      f \in DiffFilters }

InitDiff ==
  /\ IdleGlob
  /\ form \in DiffForms
  /\ location = HomePage
  /\ opened = EmptyForm
  /\ autoLoad = "none"
  /\ uPc = "idle"
  /\ IdleDiff
  /\ IdleState
  /\ IdleWorker
  /\ IdleToken

\* loadDiff when the compare request succeeds with the file list `files`.
LoadDiff ==
  /\ dPc = "idle"
  /\ \E files \in FileLists :
       LET filtered == FilterFiles(files, form.filter)
       IN /\ compareFiles' = files
          /\ IF filtered = <<>>
             THEN /\ stats' = NoMatchStats
                  /\ unifiedDiff' = <<>>
                  /\ location' = location
             ELSE /\ unifiedDiff' = BuildDiff(filtered)
                  /\ location' = updateURL(form, location)
                  /\ stats' = Stats(filtered)
  /\ errorText' = ""
  /\ dPc' = "done"
  /\ UNCHANGED <<globVars, stateVars, workerVars, tokenVars, form, opened, autoLoad, uPc>>

\* loadDiff when the request fails or answers with an error status: the
\* catch block shows the message and nothing else is rendered.
LoadDiffFailed ==
  /\ dPc = "idle"
  /\ \E failure \in {"rate limit", "status", "network"} :
       errorText' = "Error: " \o ErrorMessage(failure, accessToken)
  /\ stats' = NoStats
  /\ unifiedDiff' = <<>>
  /\ dPc' = "failed"
  /\ UNCHANGED <<globVars, stateVars, workerVars, tokenVars, urlVars, compareFiles>>

NextDiff == LoadDiff \/ LoadDiffFailed

SpecDiff == InitDiff /\ [][NextDiff]_vars

\* The records of the response that pass the filter on filename, by the
\* segment-wise matcher.
Matched == SelectSeq(compareFiles, LAMBDA f : ReferenceMatch(form.filter, f.filename))

\* Whether a line opens a section.
IsHeaderLine(line) == line[1] = "diff --git a/"

\* The header line the record's section opens with.
HeaderOf(f) ==
  LET new == Str(f.filename)
      old == IF f.previous_filename.def THEN Str(f.previous_filename.v) ELSE new
  IN IF f.status = "renamed" THEN <<"diff --git a/", old, " b/", new>>
     ELSE <<"diff --git a/", new, " b/", new>>

\* A record carries no patch when the response gives it no patch property.
CarriesNoPatch(f) == ~f.patch.def

Emitted ==
  SelectSeq(Matched,
            LAMBDA f : ~(CarriesNoPatch(f) /\ f.status \notin {"added", "removed"}))

\* The lines of the text from the n-th header line up to the next one.
SectionAt(text, n) ==
  LET starts == { i \in 1..Len(text) : IsHeaderLine(text[i]) }
      kth(k) == CHOOSE i \in starts : Cardinality({ j \in starts : j <= i }) = k
      from == kth(n)
      to == IF n < Cardinality(starts) THEN kth(n + 1) - 1 ELSE Len(text)
  IN SubSeq(text, from, to)

NumSections(text) == Cardinality({ i \in 1..Len(text) : IsHeaderLine(text[i]) })

\* How many lines the section of a record has: the header, the lines its
\* status calls for, and the patch when it has text.
LinesOf(f) ==
  (CASE f.status \in {"added", "removed"} -> 4
     [] f.status = "renamed" -> IF f.patch.def /\ f.patch.v # "" THEN 5 ELSE 3
     [] OTHER -> 3)
  + (IF f.patch.def /\ f.patch.v # "" THEN 1 ELSE 0)

\* C2: the text is one section per matched record that is not skipped, in
\* the order of the response; a record is skipped exactly when it carries no
\* patch and is neither added nor removed, and then adds no line.
C2_OneSectionPerEmittedInOrder ==
  dPc = "done" =>
    /\ NumSections(unifiedDiff) = Len(Emitted)
    /\ (unifiedDiff # <<>> => IsHeaderLine(unifiedDiff[1]))
    /\ \A n \in 1..Len(Emitted) :
          /\ SectionAt(unifiedDiff, n)[1] = HeaderOf(Emitted[n])
          /\ Len(SectionAt(unifiedDiff, n)) = LinesOf(Emitted[n])
    /\ (Emitted = <<>> => unifiedDiff = <<>>)

\* Two records passed the filter, the first was skipped and the second not.
C2_Witness ==
  /\ dPc = "done"
  /\ Len(Matched) = 2
  /\ Len(Emitted) = 1
  /\ Emitted[1] = Matched[2]
  /\ Len(compareFiles) = 2
  /\ unifiedDiff # <<>>

IsMarkerLine(line) ==
  line[1] \in {"--- a/", "+++ b/", "--- /dev/null", "+++ /dev/null"}

\* The section the documentation describes for a renamed record: the header,
\* the two rename lines and, when the record has patch text, the two marker
\* lines and the patch.
RenameSection(f) ==
  LET new == Str(f.filename)
      old == IF f.previous_filename.def THEN Str(f.previous_filename.v) ELSE new
  IN << <<"diff --git a/", old, " b/", new>>,
        <<"rename from ", old>>,
        <<"rename to ", new>> >>
     \o (IF f.patch.def /\ f.patch.v # ""
         THEN << <<"--- a/", old>>, <<"+++ b/", new>>, <<f.patch.v>> >>
         ELSE <<>>)

\* C3: every renamed record that passes the filter has its section in the
\* text: header and rename lines, with marker lines exactly when it has a
\* patch.  The code skips a renamed record whose patch property is
\* undefined, so the text holds no section for it.
C3_RenamedAlwaysHasSection ==
  dPc = "done" =>
    \A i \in 1..Len(Matched) :
      Matched[i].status = "renamed" =>
        \E n \in 1..NumSections(unifiedDiff) :
          SectionAt(unifiedDiff, n) = RenameSection(Matched[i])

\* The "mode" line of an added or removed record's section.
ModeLine(f) ==
  IF f.status = "added"
  THEN <<"new file mode ", IF f.mode.def THEN f.mode.v ELSE "100644">>
  ELSE <<"deleted file mode ",
         IF f.previous_mode.def THEN f.previous_mode.v ELSE "100644">>

\* A line that is neither a header, a mode, a rename nor a marker line: the
\* patch body.
IsPatchLine(line) == Len(line) = 1 /\ ~IsMarkerLine(line)

\* C5: every section opens with its header; the lines after it are the ones
\* its status calls for, in order; a patch body is the section's last line
\* and comes after a '---' and a '+++' line of that section.
C5_SectionsWellFormed ==
  dPc = "done" =>
    \A n \in 1..Len(Emitted) :
      LET f == Emitted[n]
          sec == SectionAt(unifiedDiff, n)
          name == Str(f.filename)
      IN /\ IsHeaderLine(sec[1])
         /\ f.status = "added" =>
              /\ sec[2] = ModeLine(f)
              /\ sec[3] = <<"--- /dev/null">>
              /\ sec[4] = <<"+++ b/", name>>
         /\ f.status = "removed" =>
              /\ sec[2] = ModeLine(f)
              /\ sec[3] = <<"--- a/", name>>
              /\ sec[4] = <<"+++ /dev/null">>
         /\ f.status \notin {"added", "removed", "renamed"} =>
              /\ sec[2] = <<"--- a/", name>>
              /\ sec[3] = <<"+++ b/", name>>
         /\ \A k \in 1..Len(sec) :
              IsPatchLine(sec[k]) =>
                /\ k = Len(sec)
                /\ sec[k] = <<f.patch.v>>
                /\ k >= 3
                /\ sec[k - 2][1] \in {"--- a/", "--- /dev/null"}
                /\ sec[k - 1][1] \in {"+++ b/", "+++ /dev/null"}
         /\ (f.patch.def /\ f.patch.v # "") => IsPatchLine(sec[Len(sec)])

\* An added record without mode and a removed record with previous_mode
\* 100755, both with a patch, were assembled into one text.
C5_Witness ==
  /\ dPc = "done"
  /\ Len(Emitted) = 2
  /\ Emitted[1].status = "added" /\ ~Emitted[1].mode.def
  /\ Emitted[1].patch.def /\ Emitted[1].patch.v # ""
  /\ Emitted[2].status = "removed" /\ Emitted[2].previous_mode.def
  /\ unifiedDiff[2] = <<"new file mode ", "100644">>
  /\ Len(unifiedDiff) = 10
  /\ unifiedDiff[7] = <<"deleted file mode ", "100755">>

\* The sum of a count over the records, a missing count being 0.
RECURSIVE Total(_, _, _)
Total(recs, field, n) ==
  IF n = 0 THEN 0
  ELSE Total(recs, field, n - 1)
       + (IF recs[n][field].def THEN recs[n][field].v ELSE 0)

\* C4: the stats count every record that passes the filter, skipped from
\* the text or not; with no such record there are no stats but the "no
\* files match" message.
C4_TotalsOverFilteredSet ==
  dPc = "done" =>
    /\ (stats.kind = "nomatch") = (Matched = <<>>)
    /\ Matched # <<>> =>
         /\ stats.kind = "stats"
         /\ stats.files = Len(Matched)
         /\ stats.additions = Total(Matched, "additions", Len(Matched))
         /\ stats.deletions = Total(Matched, "deletions", Len(Matched))

\* Two records passed the filter, one of them was skipped from the text,
\* and its counts are in the totals.
C4_Witness ==
  /\ dPc = "done"
  /\ Len(Matched) = 2
  /\ Len(Emitted) = 1
  /\ stats.files = 2
  /\ stats.additions = 6
  /\ stats.deletions = 2

(***************************************************************************)
(* The shareable-link specification: the form is filled in, updateURL      *)
(* writes the link, and a fresh page opened at that address runs           *)
(* loadFromURL.  The refs are names git accepts: not empty, no '..', no    *)
(* component starting with '.', no '/' at either end or doubled, no '.'    *)
(* at the end.  '#' is an ordinary character of a git ref name.            *)
(***************************************************************************)
RefAlphabet == {"a", "/", ".", "#"}

ValidRef(s) ==
  /\ s # <<>>
  /\ s[1] \notin {"/", "."}
  /\ s[Len(s)] \notin {"/", "."}
  /\ \A i \in 1..(Len(s) - 1) :
       /\ ~(s[i] = "/" /\ s[i + 1] \in {"/", "."})
       /\ ~(s[i] = "." /\ s[i + 1] = ".")

ValidRefs == { s \in StringsUpTo(RefAlphabet, MaxRefLen) : ValidRef(s) }

UrlFilters == { <<>>, <<"*", "*", "/", "*", ".", "a">>, <<"a", "?", "#">>, <<"a", "+", "%", " ", "&", "=">> }

UrlForms ==
  { [repo |-> <<"o", "/", "r">>, base |-> b, head |-> h, filter |-> f] :
      b \in ValidRefs, h \in ValidRefs, f \in UrlFilters }

\* A link of the older query-parameter shape.
LegacyLink ==
  [ pathname |-> Prefix,
    search |-> <<"?", "r", "e", "p", "o", "=", "o", "%", "2", "F", "r", "&",
                 "b", "a", "s", "e", "=", "a", "&", "h", "e", "a", "d", "=", "x">>,
    hash |-> <<>> ]

InitUrl ==
  /\ IdleGlob
  /\ IdleDiff
  /\ IdleState
  /\ IdleWorker
  /\ IdleToken
  /\ form \in UrlForms
  /\ location \in {HomePage, LegacyLink}
  /\ opened = EmptyForm
  /\ autoLoad = "none"
  /\ uPc = "form"

\* updateURL on the page whose form is filled in.
UpdateURL ==
  /\ uPc = "form"
  /\ location' = updateURL(form, location)
  /\ uPc' = "shared"
  /\ UNCHANGED <<globVars, diffVars, stateVars, workerVars, tokenVars, form, opened, autoLoad>>

\* A fresh page at the current address runs loadFromURL on its empty form.
LoadFromURL ==
  /\ uPc \in {"form", "shared"}
  /\ opened' = loadFromURL(EmptyForm, location)
  /\ autoLoad' = IF SchedulesAutoLoad(location) THEN "scheduled" ELSE "none"
  /\ uPc' = IF uPc = "shared" THEN "openedLink" ELSE "openedPage"
  /\ UNCHANGED <<globVars, diffVars, stateVars, workerVars, tokenVars, form, location>>

\* The timer loadFromURL set: the form is submitted if checkValidity()
\* accepts it, which the document's markup decides.
AutoLoad ==
  /\ autoLoad = "scheduled"
  /\ autoLoad' \in {"submitted", "rejected"}
  /\ UNCHANGED <<globVars, diffVars, stateVars, workerVars, tokenVars, form, location,
                 opened, uPc>>

NextUrl == UpdateURL \/ LoadFromURL \/ AutoLoad

SpecUrl == InitUrl /\ [][NextUrl]_vars

\* C9: the page opened from the link updateURL wrote has the form values
\* the link was written from.
C9_UrlRoundTrip ==
  uPc = "openedLink" => opened = form

(***************************************************************************)
(* The state-token specification: a state is signed, the token may be      *)
(* altered on its way, and it is verified under some secret at some time.  *)
(***************************************************************************)
StateAlphabet == {"1", "2", "-", "u", "."}
Secrets == {"s1", "s2"}

InitState ==
  /\ IdleGlob
  /\ IdleUrl
  /\ IdleDiff
  /\ IdleWorker
  /\ IdleToken
  /\ sState \in StringsUpTo(StateAlphabet, MaxStateLen)
  /\ sSecret \in Secrets
  /\ sSigned = <<>>
  /\ sTampered = FALSE
  /\ vSecret = ""
  /\ vNow = 0
  /\ vResult = Undefined(<<>>)
  /\ sPc = "created"

SignState ==
  /\ sPc = "created"
  /\ sSigned' = signState(sState, sSecret)
  /\ sPc' = "signed"
  /\ UNCHANGED <<globVars, urlVars, diffVars, workerVars, tokenVars, sState, sSecret,
                 sTampered, vSecret, vNow, vResult>>

\* What the holder of a token can turn it into without the secret: the
\* token cut before its last '.', the signature replaced by other text, a
\* character put before the state, text added after the signature.
Alterations(signed) ==
  { Take(signed, Len(signed) - 2),
    Take(signed, Len(signed) - 1),
    Take(signed, Len(signed) - 1) \o <<"f00d">>,
    <<"2">> \o signed,
    signed \o <<".", "x">> }

Alter ==
  /\ sPc = "signed"
  /\ sSigned' \in Alterations(sSigned)
  /\ sTampered' = TRUE
  /\ sPc' = "altered"
  /\ UNCHANGED <<globVars, urlVars, diffVars, workerVars, tokenVars, sState, sSecret,
                 vSecret, vNow, vResult>>

VerifyState ==
  /\ sPc \in {"signed", "altered"}
  /\ \E secret \in Secrets, now \in 0..MaxNow :
       /\ vSecret' = secret
       /\ vNow' = now
       /\ vResult' = verifyState(sSigned, secret, now)
  /\ sPc' = "verified"
  /\ UNCHANGED <<globVars, urlVars, diffVars, workerVars, tokenVars, sState, sSecret,
                 sSigned, sTampered>>

NextState == SignState \/ Alter \/ VerifyState

SpecState == InitState /\ [][NextState]_vars

\* The state a token carries: its text before the first '.'.
CarriedState(signed) ==
  IF IndexOfChar(signed, ".") = 0 THEN signed
  ELSE Take(signed, IndexOfChar(signed, ".") - 1)

\* The signature a token carries: its text between the first and the second
\* '.', nothing when it has no '.'.
CarriedSignature(signed) ==
  LET d == IndexOfChar(signed, ".")
      rest == Drop(signed, d)
      e == IndexOfChar(rest, ".")
  IN IF d = 0 THEN <<>> ELSE IF e = 0 THEN rest ELSE Take(rest, e - 1)

\* The run of digits a state starts with.
RECURSIVE LeadingDigits(_)
LeadingDigits(s) ==
  IF s # <<>> /\ Head(s) \in Digits THEN <<Head(s)>> \o LeadingDigits(Tail(s)) ELSE <<>>

RECURSIVE DecimalValue(_)
DecimalValue(ds) ==
  IF ds = <<>> THEN 0
  ELSE 10 * DecimalValue(Take(ds, Len(ds) - 1)) + DigitValue(ds[Len(ds)])

HasTimestamp(state) == LeadingDigits(state) # <<>>
Timestamp(state) == DecimalValue(LeadingDigits(state))

\* C6: a token verifies only if its signature is the HMAC of its state under
\* the verifying secret and its state starts with a timestamp no more than
\* ten minutes before the time of verification.  The code accepts a
\* correctly signed state that starts with no timestamp.
C6_ValidOnlyIfSignedAndFresh ==
  sPc = "verified" =>
    (vResult.def =>
       /\ vResult.v = CarriedState(sSigned)
       /\ CarriedSignature(sSigned) = <<Hmac(vSecret, CarriedState(sSigned))>>
       /\ HasTimestamp(CarriedState(sSigned))
       /\ vNow - Timestamp(CarriedState(sSigned)) <= ExpiryMinutes)

HasDot(s) == \E i \in 1..Len(s) : s[i] = "."

\* The three parts of the round trip, for an unaltered token of a state
\* that starts with its creation time.
RoundTrip ==
  /\ (vSecret = sSecret /\ vNow = Timestamp(sState)) => vResult = Some(sState)
  /\ (vSecret = sSecret /\ vNow = Timestamp(sState) + ExpiryMinutes + 1) => ~vResult.def
  /\ vSecret # sSecret => ~vResult.def

\* C7 as stated: the round trip holds for every state string that carries
\* a creation time.
C7_RoundTripEveryState ==
  (sPc = "verified" /\ ~sTampered /\ HasTimestamp(sState)) => RoundTrip

\* C7: the round trip holds for every state string that carries a creation
\* time and holds no '.'.
C7_RoundTripDotFree ==
  (sPc = "verified" /\ ~sTampered /\ HasTimestamp(sState) /\ ~HasDot(sState))
    => RoundTrip

\* The state 12-, signed under s1, verified under s1 eleven minutes after
\* its creation, was rejected.
C7_Witness ==
  /\ sPc = "verified"
  /\ ~sTampered
  /\ sState = <<"1", "2", "-">>
  /\ vSecret = sSecret
  /\ vNow = 23
  /\ ~vResult.def

(***************************************************************************)
(* The worker specification: time passes, and clients send requests, one   *)
(* at a time: req and resp hold the request being answered until the       *)
(* response is delivered.  A client holds the tokens the worker signed and *)
(* can alter them; it does not hold the secret.                            *)
(***************************************************************************)
InitWorker ==
  /\ IdleGlob
  /\ IdleUrl
  /\ IdleDiff
  /\ IdleState
  /\ IdleWorker
  /\ IdleToken

Tick ==
  /\ req = NoRequest
  /\ clock < MaxClock
  /\ clock' = clock + 1
  /\ UNCHANGED <<globVars, urlVars, diffVars, stateVars, tokenVars, issued, req, resp>>

Request(method, pathname, code, state, cookie) ==
  [ method |-> method, pathname |-> pathname, code |-> code, state |-> state,
    cookie |-> cookie, at |-> clock ]

PlainRequest(method, pathname) ==
  Request(method, pathname, Undefined(<<>>), Undefined(<<>>), <<>>)

Methods == {"GET", "OPTIONS"}

\* if (request.method === "OPTIONS"), whatever the path.
FetchPreflight ==
  /\ req = NoRequest
  /\ \E pathname \in {"/login", "/callback", "/", "/other"} :
       req' = PlainRequest("OPTIONS", pathname)
  /\ resp' = Response(200, "", FALSE)
  /\ UNCHANGED <<globVars, urlVars, diffVars, stateVars, tokenVars, clock, issued>>

\* if (url.pathname === "/login"): the state is signed; the signed state is
\* put in the Set-Cookie header handed to Response.redirect.
FetchLogin ==
  /\ req = NoRequest
  /\ Cardinality(issued) < MaxIssued
  /\ req' = PlainRequest("GET", "/login")
  /\ \E uuid \in { <<"u">> } :
       issued' = issued \cup { signState(ToDecimal(clock) \o <<"-">> \o uuid, CSRF_SECRET) }
  /\ resp' = Response(302, "github.com/login/oauth/authorize", FALSE)
  /\ UNCHANGED <<globVars, urlVars, diffVars, stateVars, tokenVars, clock>>

\* The Cookie headers a client can send.
CookieHeaders ==
  LET values == issued
                \cup { Take(t, Len(t) - 1) \o <<"f00d">> : t \in issued }
                \cup { <<"2">> \o t : t \in issued }
                \cup { <<>> }
  IN { <<>>, <<"x", "=", "1">> }
     \cup { OauthStateKey \o <<"=">> \o v : v \in values }
     \cup { <<"x", "=", "1", ";", " ">> \o OauthStateKey \o <<"=">> \o v : v \in issued }

StateParams ==
  { Undefined(<<>>), Some(<<>>), Some(<<"9", "-", "z">>) }
  \cup { Some(CarriedState(t)) : t \in issued }

\* if (url.pathname === "/callback")
FetchCallback ==
  /\ req = NoRequest
  /\ \E code \in {Undefined(<<>>), Some(<<"c">>)}, state \in StateParams,
        cookie \in CookieHeaders, tokenData \in {"access_token", "error", "neither"} :
       /\ req' = Request("GET", "/callback", code, state, cookie)
       /\ resp' = Callback(req', clock, tokenData)
  /\ UNCHANGED <<globVars, urlVars, diffVars, stateVars, tokenVars, clock, issued>>

\* if (url.pathname === "/")
FetchInfo ==
  /\ req = NoRequest
  /\ req' = PlainRequest("GET", "/")
  /\ resp' = Response(200, "Diff Viewer OAuth Worker. Use /login to authenticate.", FALSE)
  /\ UNCHANGED <<globVars, urlVars, diffVars, stateVars, tokenVars, clock, issued>>

FetchNotFound ==
  /\ req = NoRequest
  /\ req' = PlainRequest("GET", "/other")
  /\ resp' = Response(404, "Not found", FALSE)
  /\ UNCHANGED <<globVars, urlVars, diffVars, stateVars, tokenVars, clock, issued>>

\* The response has been delivered to the client.
Deliver ==
  /\ req # NoRequest
  /\ req' = NoRequest
  /\ resp' = Response(0, "", FALSE)
  /\ UNCHANGED <<globVars, urlVars, diffVars, stateVars, tokenVars, clock, issued>>

NextWorker ==
  \/ Tick
  \/ FetchPreflight
  \/ FetchLogin
  \/ FetchCallback
  \/ FetchInfo
  \/ FetchNotFound
  \/ Deliver

SpecWorker == InitWorker /\ [][NextWorker]_vars

\* The four checks of a /callback request, in the order they are made.
CodeAndStatePresent == ~Missing(req.code) /\ ~Missing(req.state)
CookiePresent == ~Missing(CookieOauthState(req.cookie))
CookieVerifies == verifyState(CookieOauthState(req.cookie).v, CSRF_SECRET, req.at).def
StateEqualsParam ==
  verifyState(CookieOauthState(req.cookie).v, CSRF_SECRET, req.at).v = req.state.v

\* What the claim says of the response to the last request.
CallbackGated ==
  /\ resp.exchanged =>
       /\ req.pathname = "/callback"
       /\ CodeAndStatePresent /\ CookiePresent /\ CookieVerifies /\ StateEqualsParam
  /\ resp.status = 302 /\ req.pathname = "/callback" => resp.exchanged
  /\ req.pathname = "/callback" =>
       IF ~CodeAndStatePresent
       THEN resp = Response(400, "Missing code or state parameter", FALSE)
       ELSE IF ~CookiePresent
       THEN resp = Response(400, "Missing state cookie", FALSE)
       ELSE IF ~(CookieVerifies /\ StateEqualsParam)
       THEN resp = Response(400, "Invalid or expired state", FALSE)
       ELSE resp.exchanged /\ resp.status \in {302, 400}
  /\ req.pathname \notin {"", "/", "/login", "/callback"} => resp.status = 404

\* C8 as stated: for every request.
C8_CallbackGatedEveryRequest == CallbackGated

\* C8: for every request that is not an OPTIONS request.
C8_CallbackGated == req.method # "OPTIONS" => CallbackGated

\* A /callback request passed the four checks and was redirected with a
\* token, more than ten minutes after another token was signed.
C8_Witness ==
  /\ req.pathname = "/callback"
  /\ req.method = "GET"
  /\ resp.status = 302
  /\ resp.exchanged
  /\ Cardinality(issued) = 2
  /\ req.at > ExpiryMinutes

(***************************************************************************)
(* The token specification: the browser arrives at the page, the script    *)
(* runs, user-info requests are answered, the user logs out, the fragment  *)
(* changes, and the three functions may be called again at any time.       *)
(***************************************************************************)
Fragments ==
  { <<>>,
    <<"#", "access_token", "=", "T1">>,
    <<"#", "access_token", "=", "T2">>,
    <<"#", "access_token", "=">>,
    <<"#", "x", "access_token", "=", "T2">>,
    <<"#", "a", "=", "1", "&", "access_token", "=", "T1">> }

InitToken ==
  /\ IdleGlob
  /\ IdleDiff
  /\ IdleState
  /\ IdleWorker
  /\ form = EmptyForm
  /\ opened = EmptyForm
  /\ autoLoad = "none"
  /\ uPc = "idle"
  /\ location \in { [HomePage EXCEPT !.hash = h] : h \in Fragments }
  /\ storage \in { NoToken, Some(<<"T0">>) }
  /\ accessToken = NoToken
  /\ ui = InitialUi
  /\ pending = <<>>
  /\ tPc = "loading"

Page == [ accessToken |-> accessToken, storage |-> storage, location |-> location,
          ui |-> ui, pending |-> pending ]

Becomes(p) ==
  /\ accessToken' = p.accessToken
  /\ storage' = p.storage
  /\ location' = p.location
  /\ ui' = p.ui
  /\ pending' = p.pending

TokenFrame == UNCHANGED <<globVars, diffVars, stateVars, workerVars, form, opened, autoLoad, uPc>>

\* updateAuthUI sends a request only with a token; the model holds at most
\* MaxPending requests in flight.
MaySend(p) == ~Truthy(p.accessToken) \/ Len(p.pending) < MaxPending

\* The browser arrives at the page with some fragment: what the previous
\* document held in memory or had in flight is gone.
Navigate ==
  /\ tPc = "loaded"
  /\ \E h \in Fragments : location' = [HomePage EXCEPT !.hash = h]
  /\ accessToken' = NoToken
  /\ ui' = InitialUi
  /\ pending' = <<>>
  /\ tPc' = "loading"
  /\ UNCHANGED storage
  /\ TokenFrame

\* The script: accessToken is read from localStorage, then
\* handleOAuthCallback(), updateAuthUI() and loadFromURL() run; the page's
\* address has no path or query for loadFromURL to read.
RunScript ==
  /\ tPc = "loading"
  /\ Becomes(updateAuthUI(handleOAuthCallback([Page EXCEPT !.accessToken = storage])))
  /\ tPc' = "loaded"
  /\ TokenFrame

\* The fragment changes without the document being loaded again.
HashChange ==
  /\ tPc = "loaded"
  /\ \E h \in Fragments : location' = [location EXCEPT !.hash = h]
  /\ UNCHANGED <<accessToken, storage, ui, pending, tPc>>
  /\ TokenFrame

CallHandleOAuthCallback ==
  /\ tPc = "loaded"
  /\ Becomes(handleOAuthCallback(Page))
  /\ UNCHANGED tPc
  /\ TokenFrame

CallUpdateAuthUI ==
  /\ tPc = "loaded"
  /\ MaySend(Page)
  /\ Becomes(updateAuthUI(Page))
  /\ UNCHANGED tPc
  /\ TokenFrame

\* The logout button.
ClickLogout ==
  /\ tPc = "loaded"
  /\ Becomes(logout(Page))
  /\ UNCHANGED tPc
  /\ TokenFrame

Without(seq, i) == SubSeq(seq, 1, i - 1) \o SubSeq(seq, i + 1, Len(seq))

\* The user-info request i is answered with an OK status: updateAuthUI goes
\* on to read the body.
UserInfoOk ==
  /\ tPc = "loaded"
  /\ \E i \in 1..Len(pending) :
       /\ pending[i].stage = "fetch"
       /\ pending' = [pending EXCEPT ![i].stage = "json"]
  /\ UNCHANGED <<accessToken, storage, location, ui, tPc>>
  /\ TokenFrame

\* The body of answer i has been read: the login is shown.
UserInfoShown ==
  /\ tPc = "loaded"
  /\ \E i \in 1..Len(pending) :
       /\ pending[i].stage = "json"
       /\ pending' = Without(pending, i)
  /\ ui' = [ui EXCEPT !.userInfo = "Logged in as"]
  /\ UNCHANGED <<accessToken, storage, location, tPc>>
  /\ TokenFrame

\* The user-info request i is answered with a status that is not OK:
\* updateAuthUI calls logout().
UserInfoNotOk ==
  /\ tPc = "loaded"
  /\ \E i \in 1..Len(pending) :
       /\ pending[i].stage = "fetch"
       /\ Becomes(logout([Page EXCEPT !.pending = Without(pending, i)]))
  /\ UNCHANGED tPc
  /\ TokenFrame

\* The request, or the reading of the body, fails: the catch block logs it.
UserInfoFailed ==
  /\ tPc = "loaded"
  /\ \E i \in 1..Len(pending) : pending' = Without(pending, i)
  /\ UNCHANGED <<accessToken, storage, location, ui, tPc>>
  /\ TokenFrame

NextToken ==
  \/ Navigate
  \/ RunScript
  \/ HashChange
  \/ CallHandleOAuthCallback
  \/ CallUpdateAuthUI
  \/ ClickLogout
  \/ UserInfoOk
  \/ UserInfoShown
  \/ UserInfoNotOk
  \/ UserInfoFailed

SpecToken == InitToken /\ [][NextToken]_vars

\* The access_token parameter of a fragment.
FragmentToken(hash) == SearchParamsGet(Drop(hash, 1), AccessTokenKey)

\* C10: once the script has run, accessToken is the stored github_token;
\* the stored token is set only to the non-empty access_token of the
\* fragment, and removed only by a logout; the logout after a user-info
\* answer that is not OK leaves the anonymous widgets and sends no request.
C10_TokenLifecycle ==
  /\ [](tPc = "loaded" => accessToken = storage)
  /\ [][ (storage' # storage /\ storage'.def) =>
           /\ FragmentToken(location.hash).def
           /\ FragmentToken(location.hash).v # <<>>
           /\ storage' = Some(FragmentToken(location.hash).v) ]_vars
  /\ [][ (storage.def /\ ~storage'.def) => (ClickLogout \/ UserInfoNotOk) ]_vars
  /\ [][ UserInfoNotOk =>
           /\ ~storage'.def
           /\ ~accessToken'.def
           /\ ui' = AnonymousUi
           /\ Len(pending') = Len(pending) - 1 ]_vars

\* The token of the fragment is stored and in memory, the fragment is gone,
\* and the user-info request sent with the token it replaced is still in
\* flight.
C10_Witness ==
  /\ tPc = "loaded"
  /\ storage = Some(<<"T1">>)
  /\ accessToken = storage
  /\ location.hash = <<>>
  /\ Len(pending) = 2
  /\ pending[1].token = <<"T0">>
  /\ pending[2].token = <<"T1">>

====
